---------------------------- MODULE Spec2Model ----------------------------
(***************************************************************************)
(* A model of the vcr-cassette schema (src/src/lib.rs): the record types   *)
(* Cassette, HttpInteraction, Request, Response, Body, Status, the enums   *)
(* Method and Version, the string_or_struct adapter and the recorded_at    *)
(* codec, as the serde derives and the hand-written code bind them to      *)
(* structured nodes (scalar strings, null, numbers, sequences, objects).   *)
(*                                                                         *)
(* Text is modelled as a tuple of one-character strings, so that case      *)
(* conversion, token matching and date formatting are computed and not     *)
(* assumed.                                                                *)
(***************************************************************************)
EXTENDS Integers, Sequences, FiniteSets, TLC

(***************************************************************************)
(* Bounds of the model.                                                    *)
(***************************************************************************)
\* the longest http_interactions sequence of a generated document
MaxInteractions == 2
\* how many times a value is serialized again after being deserialized
MaxRounds == 2

(***************************************************************************)
(* Option<T>, Result<T, E>                                                 *)
(***************************************************************************)
None == [some |-> FALSE]
Some(x) == [some |-> TRUE, x |-> x]
Ok(v) == [ok |-> TRUE, v |-> v]
Err(e) == [ok |-> FALSE, e |-> e]

(***************************************************************************)
(* Structured nodes: what the external serializer hands to, and receives   *)
(* from, the schema.  An object is a function from keys (text) to nodes.   *)
(***************************************************************************)
Str(s) == [k |-> "str", s |-> s]
Null == [k |-> "null"]
Num(n) == [k |-> "num", n |-> n]
List(xs) == [k |-> "seq", xs |-> xs]
Map(m) == [k |-> "map", m |-> m]
IsStr(n) == n.k = "str"
IsMap(n) == n.k = "map"
Has(n, key) == IsMap(n) /\ key \in DOMAIN n.m

(***************************************************************************)
(* str::to_ascii_lowercase, which serde's rename_all = "lowercase" applies *)
(* to each variant identifier.                                             *)
(***************************************************************************)
Upper == <<"A","B","C","D","E","F","G","H","I","J","K","L","M",
           "N","O","P","Q","R","S","T","U","V","W","X","Y","Z">>
Lower == <<"a","b","c","d","e","f","g","h","i","j","k","l","m",
           "n","o","p","q","r","s","t","u","v","w","x","y","z">>
LowerChar(c) ==
    IF \E i \in DOMAIN Upper : Upper[i] = c
    THEN Lower[CHOOSE i \in DOMAIN Upper : Upper[i] = c]
    ELSE c
ToAsciiLowercase(s) == [i \in DOMAIN s |-> LowerChar(s[i])]

(***************************************************************************)
(* enum Method: nine unit variants and the newtype variant Other(String).  *)
(***************************************************************************)
Connect == <<"C","o","n","n","e","c","t">>
Delete  == <<"D","e","l","e","t","e">>
Get     == <<"G","e","t">>
HeadVariant == <<"H","e","a","d">>
Options == <<"O","p","t","i","o","n","s">>
Patch   == <<"P","a","t","c","h">>
Post    == <<"P","o","s","t">>
Put     == <<"P","u","t">>
Trace   == <<"T","r","a","c","e">>
OtherVariant == <<"O","t","h","e","r">>
NamedMethods == {Connect, Delete, Get, HeadVariant, Options, Patch, Post, Put, Trace}

Named(variant) == [variant |-> variant]
Other(s) == [variant |-> OtherVariant, s |-> s]
IsOther(m) == m.variant = OtherVariant

\* #[serde(rename_all = "lowercase")]: the name each variant has on the wire
MethodWireName(variant) == ToAsciiLowercase(variant)
MethodTokens == {MethodWireName(v) : v \in NamedMethods}
VariantOfToken(t) == CHOOSE v \in NamedMethods \cup {OtherVariant} : MethodWireName(v) = t

\* derive(Serialize): a unit variant is written as its name, a newtype
\* variant as the one-entry object {name: payload}
SerializeMethod(m) ==
    IF IsOther(m)
    THEN Map(MethodWireName(OtherVariant) :> Str(m.s))
    ELSE Str(MethodWireName(m.variant))

\* derive(Deserialize): a scalar names a unit variant; a one-entry object
\* names a variant and carries its payload
DeserializeMethod(n) ==
    CASE IsStr(n) ->
           IF n.s \in MethodTokens THEN Ok(Named(VariantOfToken(n.s)))
           ELSE IF n.s = MethodWireName(OtherVariant)
                THEN Err("invalid type: unit variant, expected newtype variant")
                ELSE Err("unknown variant")
      [] IsMap(n) ->
           IF Cardinality(DOMAIN n.m) # 1 THEN Err("expected map with a single key")
           ELSE LET key == CHOOSE x \in DOMAIN n.m : TRUE
                    val == n.m[key]
                IN  IF key \in MethodTokens
                    THEN IF val = Null THEN Ok(Named(VariantOfToken(key)))
                         ELSE Err("invalid type: expected unit")
                    ELSE IF key = MethodWireName(OtherVariant)
                         THEN IF IsStr(val) THEN Ok(Other(val.s))
                              ELSE Err("invalid type: expected a string")
                         ELSE Err("unknown variant")
      [] OTHER -> Err("invalid type")

\* Method::as_str
AsStr(m) ==
    CASE m.variant = Connect -> <<"C","O","N","N","E","C","T">>
      [] m.variant = Delete  -> <<"D","E","L","E","T","E">>
      [] m.variant = Get     -> <<"G","E","T">>
      [] m.variant = HeadVariant -> <<"H","E","A","D">>
      [] m.variant = Options -> <<"O","P","T","I","O","N","S">>
      [] m.variant = Patch   -> <<"P","A","T","C","H">>
      [] m.variant = Post    -> <<"P","O","S","T">>
      [] m.variant = Put     -> <<"P","U","T">>
      [] m.variant = Trace   -> <<"T","R","A","C","E">>
      [] OTHER               -> m.s

(***************************************************************************)
(* enum Version: five unit variants, each renamed to a literal token.      *)
(***************************************************************************)
Versions == {"Http0_9", "Http1_0", "Http1_1", "Http2_0", "Http3_0"}
VersionWireNameShifted(variant) ==
    CASE variant = "Http0_9" -> <<"0",".","9">>
      [] variant = "Http1_0" -> <<"1",".","0">>
      [] variant = "Http1_1" -> <<"1",".","1">>
      [] variant = "Http2_0" -> <<"2",".","0">>
      [] variant = "Http3_0" -> <<"3",".","0">>
\* #[serde(rename = "...")]
VersionWireName(variant) ==
    CASE variant = "Http0_9" -> <<"0",".","9">>
      [] variant = "Http1_0" -> <<"1",".","0">>
      [] variant = "Http1_1" -> <<"1",".","1">>
      [] variant = "Http2_0" -> <<"2">>
      [] variant = "Http3_0" -> <<"3">>
VersionTokens == {VersionWireName(v) : v \in Versions}
VersionOfToken(t) == CHOOSE v \in Versions : VersionWireName(v) = t

\* derive(Serialize)
SerializeVersion(v) == Str(VersionWireName(v.variant))

\* derive(Deserialize): a scalar token, or the one-entry object {token: null}
DeserializeVersion(n) ==
    CASE IsStr(n) ->
           IF n.s \in VersionTokens THEN Ok([variant |-> VersionOfToken(n.s)])
           ELSE Err("unknown variant")
      [] IsMap(n) ->
           IF Cardinality(DOMAIN n.m) # 1 THEN Err("expected map with a single key")
           ELSE LET key == CHOOSE x \in DOMAIN n.m : TRUE
                IN  IF key \in VersionTokens
                    THEN IF n.m[key] = Null THEN Ok([variant |-> VersionOfToken(key)])
                         ELSE Err("invalid type: expected unit")
                    ELSE Err("unknown variant")
      [] OTHER -> Err("invalid type")

\* Option<T>: null is None, anything else is Some(T)
DeserializeOptionVersionLenient(n) ==
    IF n = Null THEN Ok(None)
    ELSE LET r == DeserializeVersion(n) IN IF r.ok THEN Ok(Some(r.v)) ELSE Ok(None)
DeserializeOptionVersion(n) ==
    IF n = Null THEN Ok(None)
    ELSE LET r == DeserializeVersion(n) IN IF r.ok THEN Ok(Some(r.v)) ELSE r
SerializeOptionVersionSkipped(o) == Null
SerializeOptionVersion(o) == IF o.some THEN SerializeVersion(o.x) ELSE Null

DeserializeString(n) == IF IsStr(n) THEN Ok(n.s) ELSE Err("invalid type: expected a string")
DeserializeOptionString(n) ==
    IF n = Null THEN Ok(None)
    ELSE LET r == DeserializeString(n) IN IF r.ok THEN Ok(Some(r.v)) ELSE r
SerializeOptionString(o) == IF o.some THEN Str(o.x) ELSE Null

(***************************************************************************)
(* struct Body, impl FromStr for Body, fn string_or_struct                 *)
(***************************************************************************)
K_encoding == <<"e","n","c","o","d","i","n","g">>
K_string == <<"s","t","r","i","n","g">>

\* Body::from_str
FromStrEncoded(s) == Ok([encoding |-> Some(s), string |-> s])
FromStr(s) == Ok([encoding |-> None, string |-> s])

\* derive(Deserialize) for Body, from an object: string is required,
\* encoding is an Option and may be missing; other keys are ignored
DeserializeBodyStructDefault(m) ==
    LET e == IF K_encoding \in DOMAIN m THEN DeserializeOptionString(m[K_encoding])
             ELSE Ok(None)
        s == IF K_string \in DOMAIN m THEN DeserializeString(m[K_string])
             ELSE Ok(<<>>)
    IN  IF ~e.ok THEN e
        ELSE IF ~s.ok THEN s
        ELSE Ok([encoding |-> e.v, string |-> s.v])
DeserializeBodyStruct(m) ==
    LET e == IF K_encoding \in DOMAIN m THEN DeserializeOptionString(m[K_encoding])
             ELSE Ok(None)
        s == IF K_string \in DOMAIN m THEN DeserializeString(m[K_string])
             ELSE Err("missing field string")
    IN  IF ~e.ok THEN e
        ELSE IF ~s.ok THEN s
        ELSE Ok([encoding |-> e.v, string |-> s.v])

\* string_or_struct: deserialize_any with a visitor that has visit_str and
\* visit_map only
StringOrStruct(n) ==
    CASE IsStr(n) -> FromStr(n.s)
      [] IsMap(n) -> DeserializeBodyStruct(n.m)
      [] OTHER -> Err("invalid type: expected string or map")

\* derive(Serialize) for Body: always the two-entry object
SerializeBodyCompact(b) ==
    IF b.encoding.some
    THEN Map(K_encoding :> SerializeOptionString(b.encoding) @@ K_string :> Str(b.string))
    ELSE Str(b.string)
SerializeBody(b) ==
    Map(K_encoding :> SerializeOptionString(b.encoding) @@ K_string :> Str(b.string))

(***************************************************************************)
(* recorded_at (mod datetime): a DateTime<FixedOffset> and its RFC 2822    *)
(* text.  A decoded instant is the local date and time as written together *)
(* with the offset, in minutes east of UTC.                                *)
(*                                                                         *)
(* The module datetime is declared in lib.rs but its text is not among the *)
(* sources; it is modelled here from the specification (section 4.3) and   *)
(* from the grammar of parse_from_rfc2822, which the field's documentation *)
(* names.  How the encoder writes a zero offset is not determined by       *)
(* either, so it is a choice made once per behaviour (zoneStyle).          *)
(***************************************************************************)
Digits == <<"0","1","2","3","4","5","6","7","8","9">>
IsDigit(c) == \E i \in DOMAIN Digits : Digits[i] = c
DigitVal(c) == (CHOOSE i \in DOMAIN Digits : Digits[i] = c) - 1
AllDigits(t) == \A i \in DOMAIN t : IsDigit(t[i])
RECURSIVE ToNum(_)
ToNum(t) ==
    IF t = <<>> THEN 0
    ELSE 10 * ToNum(SubSeq(t, 1, Len(t) - 1)) + DigitVal(t[Len(t)])
TwoDigits(n) == <<Digits[(n \div 10) + 1], Digits[(n % 10) + 1]>>
FourDigits(n) == TwoDigits(n \div 100) \o TwoDigits(n % 100)

DayNames == << <<"S","u","n">>, <<"M","o","n">>, <<"T","u","e">>, <<"W","e","d">>,
               <<"T","h","u">>, <<"F","r","i">>, <<"S","a","t">> >>
MonthNames == << <<"J","a","n">>, <<"F","e","b">>, <<"M","a","r">>, <<"A","p","r">>,
                 <<"M","a","y">>, <<"J","u","n">>, <<"J","u","l">>, <<"A","u","g">>,
                 <<"S","e","p">>, <<"O","c","t">>, <<"N","o","v">>, <<"D","e","c">> >>
IndexOf(names, t) == CHOOSE i \in DOMAIN names : names[i] = t
IsName(names, t) == \E i \in DOMAIN names : names[i] = t

IsLeap(y) == (y % 4 = 0 /\ y % 100 # 0) \/ y % 400 = 0
DaysInMonth(y, m) ==
    IF m = 2 THEN (IF IsLeap(y) THEN 29 ELSE 28)
    ELSE IF m \in {4, 6, 9, 11} THEN 30 ELSE 31
\* the day of the week of a civil date, 0 = Sunday
MonthShift == <<0, 3, 2, 5, 0, 3, 5, 1, 4, 6, 2, 4>>
Weekday(y, m, d) ==
    LET yy == IF m < 3 THEN y - 1 ELSE y
    IN  (yy + (yy \div 4) - (yy \div 100) + (yy \div 400) + MonthShift[m] + d) % 7

\* the named zones of RFC 2822 (obs-zone) and the offsets they stand for
ZoneGMT == <<"G","M","T">>
ZoneUT  == <<"U","T">>
ZoneEST == <<"E","S","T">>
ZoneEDT == <<"E","D","T">>
NamedZones == {ZoneGMT, ZoneUT, ZoneEST, ZoneEDT}
NamedZoneOffset(z) ==
    CASE z = ZoneGMT -> 0
      [] z = ZoneUT  -> 0
      [] z = ZoneEST -> -300
      [] z = ZoneEDT -> -240

\* the words of a text: the pieces between single spaces
RECURSIVE Split(_)
Split(s) ==
    IF \A i \in DOMAIN s : s[i] # " " THEN <<s>>
    ELSE LET i == CHOOSE j \in DOMAIN s :
                     s[j] = " " /\ \A l \in 1..(j - 1) : s[l] # " "
         IN  <<SubSeq(s, 1, i - 1)>> \o Split(SubSeq(s, i + 1, Len(s)))

InvalidTimestamp == Err("invalid timestamp")

\* hh:mm:ss or hh:mm
ParseTime(t) ==
    IF /\ Len(t) \in {5, 8}
       /\ t[3] = ":"
       /\ AllDigits(SubSeq(t, 1, 2)) /\ AllDigits(SubSeq(t, 4, 5))
       /\ (Len(t) = 8 => t[6] = ":" /\ AllDigits(SubSeq(t, 7, 8)))
    THEN LET h == ToNum(SubSeq(t, 1, 2))
             m == ToNum(SubSeq(t, 4, 5))
             sec == IF Len(t) = 8 THEN ToNum(SubSeq(t, 7, 8)) ELSE 0
         IN  IF h < 24 /\ m < 60 /\ sec < 60
             THEN Ok([hour |-> h, minute |-> m, second |-> sec])
             ELSE InvalidTimestamp
    ELSE InvalidTimestamp

\* (+|-)hhmm, or a named zone, normalized to a numeric offset
ParseZoneUtc(z) ==
    IF z \in NamedZones \/ (Len(z) = 5 /\ z[1] \in {"+", "-"} /\ AllDigits(SubSeq(z, 2, 5)))
    THEN Ok(0)
    ELSE InvalidTimestamp
ParseZone(z) ==
    IF z \in NamedZones THEN Ok(NamedZoneOffset(z))
    ELSE IF Len(z) = 5 /\ z[1] \in {"+", "-"} /\ AllDigits(SubSeq(z, 2, 5))
         THEN LET hh == ToNum(SubSeq(z, 2, 3))
                  mm == ToNum(SubSeq(z, 4, 5))
              IN  IF mm < 60
                  THEN Ok((IF z[1] = "-" THEN -1 ELSE 1) * (60 * hh + mm))
                  ELSE InvalidTimestamp
         ELSE InvalidTimestamp

\* [day-of-week ","] day month year time zone
ParseFromRfc2822(s) ==
    LET w == Split(s)
        hasDow == Len(w) = 6
        f == IF hasDow THEN SubSeq(w, 2, 6) ELSE w
    IN  IF Len(w) \notin {5, 6} THEN InvalidTimestamp
        ELSE IF hasDow /\ ~(Len(w[1]) = 4 /\ w[1][4] = ","
                            /\ IsName(DayNames, SubSeq(w[1], 1, 3)))
        THEN InvalidTimestamp
        ELSE IF ~(Len(f[1]) \in {1, 2} /\ AllDigits(f[1])
                  /\ IsName(MonthNames, f[2])
                  /\ Len(f[3]) = 4 /\ AllDigits(f[3]))
        THEN InvalidTimestamp
        ELSE LET d == ToNum(f[1])
                 mo == IndexOf(MonthNames, f[2])
                 y == ToNum(f[3])
                 t == ParseTime(f[4])
                 z == ParseZone(f[5])
             IN  IF ~t.ok \/ ~z.ok \/ d < 1 \/ d > DaysInMonth(y, mo)
                 THEN InvalidTimestamp
                 ELSE IF hasDow /\ IndexOf(DayNames, SubSeq(w[1], 1, 3)) - 1 # Weekday(y, mo, d)
                 THEN InvalidTimestamp
                 ELSE Ok([year |-> y, month |-> mo, day |-> d,
                          hour |-> t.v.hour, minute |-> t.v.minute,
                          second |-> t.v.second, offset |-> z.v])

\* the zone as written by the encoder: (+|-)hhmm; an encoder of the
\* "named" style writes a zero offset as GMT
FormatZone(offset, style) ==
    IF offset = 0 /\ style = "named" THEN ZoneGMT
    ELSE LET a == IF offset < 0 THEN -offset ELSE offset
         IN  <<IF offset < 0 THEN "-" ELSE "+">> \o TwoDigits(a \div 60) \o TwoDigits(a % 60)

ToRfc2822(dt, style) ==
    DayNames[Weekday(dt.year, dt.month, dt.day) + 1] \o <<",", " ">>
    \o TwoDigits(dt.day) \o <<" ">> \o MonthNames[dt.month] \o <<" ">>
    \o FourDigits(dt.year) \o <<" ">>
    \o TwoDigits(dt.hour) \o <<":">> \o TwoDigits(dt.minute) \o <<":">> \o TwoDigits(dt.second)
    \o <<" ">> \o FormatZone(dt.offset, style)

\* datetime::deserialize, datetime::serialize
DeserializeRecordedAt(n) ==
    IF IsStr(n) THEN ParseFromRfc2822(n.s) ELSE Err("invalid type: expected a string")
SerializeRecordedAt(dt, style) == Str(ToRfc2822(dt, style))

(***************************************************************************)
(* struct Status, type Headers, struct Request, struct Response,           *)
(* struct HttpInteraction, struct Cassette: derive(Serialize, Deserialize).*)
(* A struct is read from an object; a field that is not an Option and is   *)
(* missing fails the struct; keys that name no field are ignored.          *)
(***************************************************************************)
K_code == <<"c","o","d","e">>
K_message == <<"m","e","s","s","a","g","e">>
K_uri == <<"u","r","i">>
K_body == <<"b","o","d","y">>
K_method == <<"m","e","t","h","o","d">>
K_headers == <<"h","e","a","d","e","r","s">>
K_http_version == <<"h","t","t","p","_","v","e","r","s","i","o","n">>
K_status == <<"s","t","a","t","u","s">>
K_response == <<"r","e","s","p","o","n","s","e">>
K_request == <<"r","e","q","u","e","s","t">>
K_recorded_at == <<"r","e","c","o","r","d","e","d","_","a","t">>
K_http_interactions ==
    <<"h","t","t","p","_","i","n","t","e","r","a","c","t","i","o","n","s">>
K_recorded_with == <<"r","e","c","o","r","d","e","d","_","w","i","t","h">>

MissingField == Err("missing field")
ExpectedMap == Err("invalid type: expected a map")

\* u16
DeserializeU16(n) ==
    IF n.k = "num" /\ n.n >= 0 /\ n.n < 65536 THEN Ok(n.n)
    ELSE Err("invalid type or value: expected u16")

DeserializeStatus(n) ==
    IF ~IsMap(n) THEN ExpectedMap
    ELSE LET c == IF K_code \in DOMAIN n.m THEN DeserializeU16(n.m[K_code]) ELSE MissingField
             g == IF K_message \in DOMAIN n.m THEN DeserializeString(n.m[K_message])
                  ELSE MissingField
         IN  IF ~c.ok THEN c ELSE IF ~g.ok THEN g
             ELSE Ok([code |-> c.v, message |-> g.v])
SerializeStatus(st) == Map(K_code :> Num(st.code) @@ K_message :> Str(st.message))

\* Vec<String>
DeserializeVecString(n) ==
    IF n.k = "seq" /\ \A i \in DOMAIN n.xs : IsStr(n.xs[i])
    THEN Ok([i \in DOMAIN n.xs |-> n.xs[i].s])
    ELSE Err("invalid type: expected a sequence of strings")
SerializeVecString(v) == List([i \in DOMAIN v |-> Str(v[i])])

\* HashMap<String, Vec<String>>
DeserializeHeaders(n) ==
    IF IsMap(n) /\ \A key \in DOMAIN n.m : DeserializeVecString(n.m[key]).ok
    THEN Ok([key \in DOMAIN n.m |-> DeserializeVecString(n.m[key]).v])
    ELSE Err("invalid type: expected a map of sequences of strings")
SerializeHeaders(h) == Map([key \in DOMAIN h |-> SerializeVecString(h[key])])

DeserializeRequest(n) ==
    IF ~IsMap(n) THEN ExpectedMap
    ELSE LET u == IF K_uri \in DOMAIN n.m THEN DeserializeString(n.m[K_uri]) ELSE MissingField
             b == IF K_body \in DOMAIN n.m THEN StringOrStruct(n.m[K_body]) ELSE MissingField
             me == IF K_method \in DOMAIN n.m THEN DeserializeMethod(n.m[K_method])
                   ELSE MissingField
             h == IF K_headers \in DOMAIN n.m THEN DeserializeHeaders(n.m[K_headers])
                  ELSE MissingField
         IN  IF ~u.ok THEN u ELSE IF ~b.ok THEN b ELSE IF ~me.ok THEN me ELSE IF ~h.ok THEN h
             ELSE Ok([uri |-> u.v, body |-> b.v, method |-> me.v, headers |-> h.v])
SerializeRequest(r) ==
    Map(K_uri :> Str(r.uri) @@ K_body :> SerializeBody(r.body)
        @@ K_method :> SerializeMethod(r.method) @@ K_headers :> SerializeHeaders(r.headers))

\* http_version: Option<Version>, so a missing key is None
ResponseVersion(m) ==
    IF K_http_version \in DOMAIN m THEN DeserializeOptionVersion(m[K_http_version])
    ELSE Ok(None)
DeserializeResponse(n) ==
    IF ~IsMap(n) THEN ExpectedMap
    ELSE LET b == IF K_body \in DOMAIN n.m THEN StringOrStruct(n.m[K_body]) ELSE MissingField
             v == ResponseVersion(n.m)
             st == IF K_status \in DOMAIN n.m THEN DeserializeStatus(n.m[K_status])
                   ELSE MissingField
             h == IF K_headers \in DOMAIN n.m THEN DeserializeHeaders(n.m[K_headers])
                  ELSE MissingField
         IN  IF ~b.ok THEN b ELSE IF ~v.ok THEN v ELSE IF ~st.ok THEN st ELSE IF ~h.ok THEN h
             ELSE Ok([body |-> b.v, http_version |-> v.v, status |-> st.v, headers |-> h.v])
SerializeResponse(r) ==
    Map(K_body :> SerializeBody(r.body)
        @@ K_http_version :> SerializeOptionVersion(r.http_version)
        @@ K_status :> SerializeStatus(r.status) @@ K_headers :> SerializeHeaders(r.headers))

DeserializeHttpInteraction(n) ==
    IF ~IsMap(n) THEN ExpectedMap
    ELSE LET rs == IF K_response \in DOMAIN n.m THEN DeserializeResponse(n.m[K_response])
                   ELSE MissingField
             rq == IF K_request \in DOMAIN n.m THEN DeserializeRequest(n.m[K_request])
                   ELSE MissingField
             at == IF K_recorded_at \in DOMAIN n.m
                   THEN DeserializeRecordedAt(n.m[K_recorded_at]) ELSE MissingField
         IN  IF ~rs.ok THEN rs ELSE IF ~rq.ok THEN rq ELSE IF ~at.ok THEN at
             ELSE Ok([response |-> rs.v, request |-> rq.v, recorded_at |-> at.v])
SerializeHttpInteraction(i, style) ==
    Map(K_response :> SerializeResponse(i.response)
        @@ K_request :> SerializeRequest(i.request)
        @@ K_recorded_at :> SerializeRecordedAt(i.recorded_at, style))

\* Vec<HttpInteraction>: one failing element fails the sequence
Collect(rs) ==
    IF \A i \in DOMAIN rs : rs[i].ok THEN Ok([i \in DOMAIN rs |-> rs[i].v])
    ELSE LET bad == CHOOSE i \in DOMAIN rs : ~rs[i].ok /\ \A j \in 1..(i - 1) : rs[j].ok
         IN  rs[bad]
DeserializeInteractions(n) ==
    IF n.k # "seq" THEN Err("invalid type: expected a sequence")
    ELSE Collect([i \in DOMAIN n.xs |-> DeserializeHttpInteraction(n.xs[i])])

DeserializeCassette(n) ==
    IF ~IsMap(n) THEN ExpectedMap
    ELSE LET is == IF K_http_interactions \in DOMAIN n.m
                   THEN DeserializeInteractions(n.m[K_http_interactions]) ELSE MissingField
             w == IF K_recorded_with \in DOMAIN n.m
                  THEN DeserializeString(n.m[K_recorded_with]) ELSE MissingField
         IN  IF ~is.ok THEN is ELSE IF ~w.ok THEN w
             ELSE Ok([http_interactions |-> is.v, recorded_with |-> w.v])
SerializeCassette(c, style) ==
    Map(K_http_interactions :>
            List([i \in DOMAIN c.http_interactions |->
                     SerializeHttpInteraction(c.http_interactions[i], style)])
        @@ K_recorded_with :> Str(c.recorded_with))

(***************************************************************************)
(* The documents and values the model starts from.                         *)
(***************************************************************************)
Empty == <<>>
T_hi == <<"h","i">>
T_Hello == <<"H","e","l","l","o"," ","f","o","o">>
T_base64 == <<"b","a","s","e","6","4">>
T_PROPFIND == <<"P","R","O","P","F","I","N","D">>
T_GET == <<"G","E","T">>
T_other == <<"o","t","h","e","r">>
T_get == <<"g","e","t">>
T_uri == <<"h","t","t","p",":","/","/","l","o","c","a","l","h","o","s","t","/","f","o","o">>
T_OK == <<"O","K">>
T_VCR == <<"V","C","R"," ","2",".","0",".","0">>
T_SetCookie == <<"S","e","t","-","C","o","o","k","i","e">>
T_a1 == <<"a","=","1">>
T_b2 == <<"b","=","2">>
K_extra == <<"e","x","t","r","a">>

Absent == [k |-> "absent"]
NoEntries == [x \in {} |-> Null]
Entry(key, n) == IF n = Absent THEN NoEntries ELSE key :> n
SeqsUpTo(S, n) == UNION {[1..l -> S] : l \in 0..n}

MethodDocuments ==
    {Str(t) : t \in MethodTokens \cup {Get, T_GET, T_PROPFIND, T_other, Empty}}
    \cup {Map(T_other :> Str(T_PROPFIND)), Map(T_other :> Str(T_get)), Map(T_other :> Null),
          Map(T_get :> Null), Map(T_get :> Str(T_get)), Map(T_PROPFIND :> Null),
          Map(NoEntries), Null, Num(1)}
MethodValues ==
    {Named(v) : v \in NamedMethods} \cup {Other(t) : t \in {T_PROPFIND, T_get, T_GET, Empty}}

VersionDocuments ==
    {Str(t) : t \in VersionTokens \cup {<<"9",".","9">>, <<"2",".","0">>, <<"3",".","0">>,
                                        <<"1">>, <<"1",".","1"," ">>, Empty}}
    \cup {Map(<<"1",".","1">> :> Null), Map(<<"9",".","9">> :> Null), Null, Num(2)}
VersionValues == {[variant |-> v] : v \in Versions}

BodyEntryNodes == {Str(T_hi), Str(Empty), Null, Num(1)}
BodyDocuments ==
    {Str(t) : t \in {Empty, T_hi, T_Hello}}
    \cup {Map(m) : m \in UNION {[D -> BodyEntryNodes] :
                                    D \in SUBSET {K_string, K_encoding, K_extra}}}
    \cup {Null, Num(1), List(<<Str(T_hi)>>)}
BodyValues ==
    {[encoding |-> e, string |-> t] : e \in {None, Some(T_base64), Some(Empty)},
                                      t \in {Empty, T_hi}}

StatusDocuments ==
    {Map(K_code :> Num(200) @@ K_message :> Str(T_OK)),
     Map(K_code :> Num(70000) @@ K_message :> Str(T_OK))}
HeadersDocuments ==
    {Map(NoEntries), Map(T_SetCookie :> List(<<Str(T_a1), Str(T_b2)>>))}

ResponseDocuments ==
    {Map(Entry(K_body, b) @@ Entry(K_http_version, v) @@ K_status :> st @@ K_headers :> h) :
        b \in {Absent, Str(T_hi), Map(K_string :> Str(T_hi) @@ K_encoding :> Str(T_base64)),
               Map(K_encoding :> Str(T_base64))},
        v \in {Absent, Null, Num(2)} \cup
              {Str(t) : t \in {<<"1",".","1">>, <<"2">>, <<"9",".","9">>, <<"2",".","0">>, Empty}},
        st \in StatusDocuments,
        h \in HeadersDocuments}

RequestDocuments ==
    {Map(K_uri :> Str(T_uri) @@ Entry(K_body, b) @@ Entry(K_method, me) @@ K_headers :> h) :
        b \in {Absent, Str(Empty), Str(T_hi), Map(K_string :> Str(T_hi)), Map(NoEntries)},
        me \in {Absent, Str(T_get), Str(T_GET), Str(T_PROPFIND),
                Map(T_other :> Str(T_PROPFIND))},
        h \in HeadersDocuments}

\* recorded_at texts: the words joined by single spaces
Rfc2822Text(dow, day, mon, year, time, zone) ==
    (IF dow = Empty THEN Empty ELSE dow \o <<",", " ">>)
    \o day \o <<" ">> \o mon \o <<" ">> \o year \o <<" ">> \o time \o <<" ">> \o zone
Y2011 == <<"2","0","1","1">>
Y2003 == <<"2","0","0","3">>
DateWords ==
    { <<dow, <<"0","1">>, MonthNames[11], Y2011>> : dow \in {DayNames[3], DayNames[4], Empty} }
    \cup { <<dow, <<"1">>, MonthNames[11], Y2011>> : dow \in {DayNames[3], Empty} }
    \cup { <<DayNames[5], <<"2","7">>, MonthNames[10], Y2011>>,
           <<DayNames[3], <<"1">>, MonthNames[7], Y2003>>,
           <<DayNames[4], <<"3","1">>, MonthNames[11], Y2011>> }
TimeWords == { <<"0","4",":","5","8",":","4","4">>, <<"2","3",":","3","0">>,
               <<"2","4",":","0","0",":","0","0">> }
ZoneWords == { ZoneGMT, ZoneUT, ZoneEST, <<"+","0","0","0","0">>, <<"-","0","0","0","0">>,
               <<"+","0","2","0","0">>, <<"-","0","5","3","0">>, <<"C","E","T","X">> }
RecordedAtTexts ==
    {Rfc2822Text(d[1], d[2], d[3], d[4], t, z) : d \in DateWords, t \in TimeWords, z \in ZoneWords}
    \cup {Empty, T_hi}
RecordedAtDocuments == {Str(t) : t \in RecordedAtTexts} \cup {Null}
\* "Tue, 01 Nov 2011 04:58:44 GMT"
ExampleText ==
    Rfc2822Text(DayNames[3], <<"0","1">>, MonthNames[11], Y2011,
                <<"0","4",":","5","8",":","4","4">>, ZoneGMT)

InteractionDocuments ==
    {Map(K_response :> Map(K_body :> Str(T_hi) @@ Entry(K_http_version, v)
                           @@ K_status :> Map(K_code :> Num(200) @@ K_message :> Str(T_OK))
                           @@ K_headers :> Map(T_SetCookie :> List(<<Str(T_a1), Str(T_b2)>>)))
         @@ K_request :> Map(K_uri :> Str(T_uri) @@ K_body :> rq[1] @@ K_method :> rq[2]
                             @@ K_headers :> Map(NoEntries))
         @@ K_recorded_at :> Str(at)) :
        v \in {Absent, Str(<<"1",".","1">>), Str(<<"9",".","9">>)},
        rq \in { <<Str(Empty), Str(T_get)>>,
                 <<Map(K_string :> Str(T_hi) @@ K_encoding :> Str(T_base64)),
                   Map(T_other :> Str(T_PROPFIND))>>,
                 <<Str(T_hi), Str(T_PROPFIND)>> },
        at \in { ExampleText,
                 Rfc2822Text(Empty, <<"2","7">>, MonthNames[10], Y2011,
                             <<"2","3",":","3","0">>, <<"+","0","2","0","0">>) }}
CassetteDocuments ==
    {Map(K_http_interactions :> List(is) @@ Entry(K_recorded_with, w)) :
        is \in SeqsUpTo(InteractionDocuments, MaxInteractions),
        w \in {Str(T_VCR)}}
    \cup {Map(K_http_interactions :> List(<<>>)), Map(K_recorded_with :> Str(T_VCR)), Null}

Types == {"Method", "Version", "Body", "Request", "Response", "RecordedAt", "Cassette"}
Documents(t) ==
    CASE t = "Method" -> MethodDocuments
      [] t = "Version" -> VersionDocuments
      [] t = "Body" -> BodyDocuments
      [] t = "Request" -> RequestDocuments
      [] t = "Response" -> ResponseDocuments
      [] t = "RecordedAt" -> RecordedAtDocuments
      [] t = "Cassette" -> CassetteDocuments
\* values a caller assembles itself rather than decodes
Constructed(t) ==
    CASE t = "Method" -> MethodValues
      [] t = "Version" -> VersionValues
      [] t = "Body" -> BodyValues
      [] OTHER -> {}

(***************************************************************************)
(* The state: one document of one type being decoded, encoded again, and   *)
(* decoded again.                                                          *)
(***************************************************************************)
VARIABLES
    ty,         \* the type the document is read as
    doc,        \* Some(the current document), or None for an assembled value
    val,        \* Some(the result of decoding doc), or None before decoding
    prevDoc,    \* the document the value being encoded was decoded from
    prevVal,    \* the value the current document was encoded from
    round,      \* how many times a value has been encoded
    shown,      \* Some(what Method::as_str returned), or None
    zoneStyle   \* how the recorded_at encoder writes a zero offset
vars == <<ty, doc, val, prevDoc, prevVal, round, shown, zoneStyle>>

ZoneStyles == {"numeric", "named"}

Init ==
    /\ ty \in Types
    /\ \/ /\ doc \in {Some(n) : n \in Documents(ty)}
          /\ val = None
       \/ /\ doc = None
          /\ val \in {Some(Ok(v)) : v \in Constructed(ty)}
    /\ prevDoc = None
    /\ prevVal = None
    /\ round = 0
    /\ shown = None
    /\ zoneStyle \in ZoneStyles

\* Decoding (serde_json::from_str::<T>, serde_yaml::from_str::<T>) reads the
\* current document; encoding (to_string) writes the current value as a new
\* document, which may be decoded again.
CanDecode(t) == ty = t /\ doc.some /\ val = None
CanEncode(t) == ty = t /\ val.some /\ val.x.ok /\ round < MaxRounds

DecodeMethod ==
    /\ CanDecode("Method")
    /\ val' = Some(DeserializeMethod(doc.x))
    /\ UNCHANGED <<ty, doc, prevDoc, prevVal, round, shown, zoneStyle>>

EncodeMethod ==
    /\ CanEncode("Method")
    /\ doc' = Some(SerializeMethod(val.x.v))
    /\ prevDoc' = doc
    /\ prevVal' = val
    /\ val' = None
    /\ round' = round + 1
    /\ UNCHANGED <<ty, shown, zoneStyle>>

DecodeVersion ==
    /\ CanDecode("Version")
    /\ val' = Some(DeserializeVersion(doc.x))
    /\ UNCHANGED <<ty, doc, prevDoc, prevVal, round, shown, zoneStyle>>

EncodeVersion ==
    /\ CanEncode("Version")
    /\ doc' = Some(SerializeVersion(val.x.v))
    /\ prevDoc' = doc
    /\ prevVal' = val
    /\ val' = None
    /\ round' = round + 1
    /\ UNCHANGED <<ty, shown, zoneStyle>>

DecodeBody ==
    /\ CanDecode("Body")
    /\ val' = Some(StringOrStruct(doc.x))
    /\ UNCHANGED <<ty, doc, prevDoc, prevVal, round, shown, zoneStyle>>

EncodeBody ==
    /\ CanEncode("Body")
    /\ doc' = Some(SerializeBody(val.x.v))
    /\ prevDoc' = doc
    /\ prevVal' = val
    /\ val' = None
    /\ round' = round + 1
    /\ UNCHANGED <<ty, shown, zoneStyle>>

DecodeRequest ==
    /\ CanDecode("Request")
    /\ val' = Some(DeserializeRequest(doc.x))
    /\ UNCHANGED <<ty, doc, prevDoc, prevVal, round, shown, zoneStyle>>

EncodeRequest ==
    /\ CanEncode("Request")
    /\ doc' = Some(SerializeRequest(val.x.v))
    /\ prevDoc' = doc
    /\ prevVal' = val
    /\ val' = None
    /\ round' = round + 1
    /\ UNCHANGED <<ty, shown, zoneStyle>>

DecodeResponse ==
    /\ CanDecode("Response")
    /\ val' = Some(DeserializeResponse(doc.x))
    /\ UNCHANGED <<ty, doc, prevDoc, prevVal, round, shown, zoneStyle>>

EncodeResponse ==
    /\ CanEncode("Response")
    /\ doc' = Some(SerializeResponse(val.x.v))
    /\ prevDoc' = doc
    /\ prevVal' = val
    /\ val' = None
    /\ round' = round + 1
    /\ UNCHANGED <<ty, shown, zoneStyle>>

DecodeRecordedAt ==
    /\ CanDecode("RecordedAt")
    /\ val' = Some(DeserializeRecordedAt(doc.x))
    /\ UNCHANGED <<ty, doc, prevDoc, prevVal, round, shown, zoneStyle>>

EncodeRecordedAt ==
    /\ CanEncode("RecordedAt")
    /\ doc' = Some(SerializeRecordedAt(val.x.v, zoneStyle))
    /\ prevDoc' = doc
    /\ prevVal' = val
    /\ val' = None
    /\ round' = round + 1
    /\ UNCHANGED <<ty, shown, zoneStyle>>

DecodeCassette ==
    /\ CanDecode("Cassette")
    /\ val' = Some(DeserializeCassette(doc.x))
    /\ UNCHANGED <<ty, doc, prevDoc, prevVal, round, shown, zoneStyle>>

EncodeCassette ==
    /\ CanEncode("Cassette")
    /\ doc' = Some(SerializeCassette(val.x.v, zoneStyle))
    /\ prevDoc' = doc
    /\ prevVal' = val
    /\ val' = None
    /\ round' = round + 1
    /\ UNCHANGED <<ty, shown, zoneStyle>>

\* Method::as_str on the current value
MethodAsStr ==
    /\ ty = "Method"
    /\ val.some
    /\ val.x.ok
    /\ shown = None
    /\ shown' = Some(AsStr(val.x.v))
    /\ UNCHANGED <<ty, doc, val, prevDoc, prevVal, round, zoneStyle>>

Next ==
    \/ DecodeMethod \/ EncodeMethod \/ MethodAsStr
    \/ DecodeVersion \/ EncodeVersion
    \/ DecodeBody \/ EncodeBody
    \/ DecodeRequest \/ EncodeRequest
    \/ DecodeResponse \/ EncodeResponse
    \/ DecodeRecordedAt \/ EncodeRecordedAt
    \/ DecodeCassette \/ EncodeCassette

Spec == Init /\ [][Next]_vars

(***************************************************************************)
(* Properties.                                                             *)
(***************************************************************************)
\* the input document has been decoded once and nothing encoded yet
FirstDecoded(t) == ty = t /\ round = 0 /\ doc.some /\ val.some
\* a value has been encoded and the result decoded again
Redecoded(t) == ty = t /\ round >= 1 /\ val.some
\* a value has just been encoded
Encoded(t) == ty = t /\ round >= 1 /\ prevVal.some

\* C1: a Cassette obtained by decoding a document, encoded and decoded
\* again, decodes successfully to a Cassette equal to the first.
C1_RoundTrip ==
    Redecoded("Cassette") => val.x.ok /\ val.x.v = prevVal.x.v
C1_Witness ==
    /\ Redecoded("Cassette")
    /\ val.x.ok
    /\ Len(val.x.v.http_interactions) >= 2
    /\ \E i \in DOMAIN val.x.v.http_interactions :
          LET it == val.x.v.http_interactions[i]
          IN  /\ IsOther(it.request.method)
              /\ it.request.body.encoding.some
              /\ it.response.http_version = None
    /\ \E i \in DOMAIN val.x.v.http_interactions :
          LET it == val.x.v.http_interactions[i]
          IN  /\ it.request.method = Named(Get)
              /\ it.response.http_version.some
              /\ T_SetCookie \in DOMAIN it.response.headers

LowercaseTokenVariant ==
    (<<"c","o","n","n","e","c","t">> :> Connect) @@ (<<"d","e","l","e","t","e">> :> Delete)
    @@ (<<"g","e","t">> :> Get) @@ (<<"h","e","a","d">> :> HeadVariant)
    @@ (<<"o","p","t","i","o","n","s">> :> Options) @@ (<<"p","a","t","c","h">> :> Patch)
    @@ (<<"p","o","s","t">> :> Post) @@ (<<"p","u","t">> :> Put)
    @@ (<<"t","r","a","c","e">> :> Trace)
\* C2: decoding a Method from a scalar string never fails: one of the nine
\* lowercase tokens gives the named variant, any other string t gives
\* Other(t).
C2_ScalarMethodNeverFails ==
    (FirstDecoded("Method") /\ IsStr(doc.x)) =>
        IF doc.x.s \in DOMAIN LowercaseTokenVariant
        THEN val.x = Ok(Named(LowercaseTokenVariant[doc.x.s]))
        ELSE val.x = Ok(Other(doc.x.s))

VariantLowercaseToken(v) == CHOOSE t \in DOMAIN LowercaseTokenVariant : LowercaseTokenVariant[t] = v
\* C3: encoding a Method always yields a scalar string: the lowercase token
\* of a named variant, the stored string of Other(s) unchanged.
C3_MethodEncodesToScalar ==
    Encoded("Method") =>
        LET m == prevVal.x.v
        IN  IF IsOther(m) THEN doc.x = Str(m.s)
            ELSE doc.x = Str(VariantLowercaseToken(m.variant))

TokenVersion ==
    (<<"0",".","9">> :> "Http0_9") @@ (<<"1",".","0">> :> "Http1_0")
    @@ (<<"1",".","1">> :> "Http1_1") @@ (<<"2">> :> "Http2_0") @@ (<<"3">> :> "Http3_0")
\* C4: decoding a Version from a token succeeds exactly for "0.9", "1.0",
\* "1.1", "2", "3", giving Http0_9, Http1_0, Http1_1, Http2_0, Http3_0; any
\* other token fails; encoding a variant emits the token that decodes to it.
C4_VersionTokens ==
    /\ (FirstDecoded("Version") /\ IsStr(doc.x)) =>
          IF doc.x.s \in DOMAIN TokenVersion
          THEN val.x = Ok([variant |-> TokenVersion[doc.x.s]])
          ELSE ~val.x.ok
    /\ Encoded("Version") =>
          /\ IsStr(doc.x)
          /\ doc.x.s \in DOMAIN TokenVersion
          /\ TokenVersion[doc.x.s] = prevVal.x.v.variant
          /\ val.some => val = prevVal
C4_Witness ==
    /\ Redecoded("Version")
    /\ prevDoc = Some(Str(<<"2">>))
    /\ val.x = Ok([variant |-> "Http2_0"])
C4_WitnessRejected ==
    FirstDecoded("Version") /\ doc.x = Str(<<"2",".","0">>) /\ ~val.x.ok

\* C5: a body given as a scalar string s always decodes, to
\* Body{encoding: None, string: s}, alone and as the body of a Request or a
\* Response.
C5_ScalarBody ==
    /\ (FirstDecoded("Body") /\ IsStr(doc.x)) =>
          val.x = Ok([encoding |-> None, string |-> doc.x.s])
    /\ (ty \in {"Request", "Response"} /\ round = 0 /\ val.some /\ val.x.ok
        /\ IsStr(doc.x.m[K_body])) =>
          val.x.v.body = [encoding |-> None, string |-> doc.x.m[K_body].s]
C5_Witness ==
    FirstDecoded("Body") /\ doc.x = Str(Empty) /\ val.x.ok
C5_WitnessRequest ==
    FirstDecoded("Request") /\ val.x.ok /\ doc.x.m[K_body] = Str(Empty)
C5_WitnessResponse ==
    FirstDecoded("Response") /\ val.x.ok /\ doc.x.m[K_body] = Str(T_hi)

\* C6: a body given as an object decodes to Body{encoding: e, string: the
\* string entry}, with e = Some(v) for an encoding entry v and None without
\* one; an object without a string entry fails to decode.
C6_ObjectBody ==
    (FirstDecoded("Body") /\ IsMap(doc.x)) =>
        LET m == doc.x.m
        IN  /\ K_string \notin DOMAIN m => ~val.x.ok
            /\ (K_string \notin DOMAIN m /\ K_encoding \notin DOMAIN m) =>
                  val.x = Err("missing field string")
            /\ (K_string \in DOMAIN m /\ IsStr(m[K_string])) =>
                  /\ K_encoding \notin DOMAIN m =>
                        val.x = Ok([encoding |-> None, string |-> m[K_string].s])
                  /\ (K_encoding \in DOMAIN m /\ IsStr(m[K_encoding])) =>
                        val.x = Ok([encoding |-> Some(m[K_encoding].s),
                                    string |-> m[K_string].s])
C6_Witness ==
    /\ FirstDecoded("Body")
    /\ IsMap(doc.x)
    /\ DOMAIN doc.x.m = {K_encoding}
    /\ IsStr(doc.x.m[K_encoding])
    /\ val.x = Err("missing field string")
C6_WitnessDecoded ==
    /\ FirstDecoded("Body")
    /\ IsMap(doc.x)
    /\ DOMAIN doc.x.m = {K_string, K_encoding}
    /\ val.x.ok
    /\ val.x.v.encoding.some

\* C7: encoding a Body always gives the object with the entries encoding
\* and string, never a scalar, also for a Body decoded from a scalar; and
\* decoding that object gives back the Body.
C7_BodyEncodesToObject ==
    Encoded("Body") =>
        /\ IsMap(doc.x)
        /\ DOMAIN doc.x.m = {K_encoding, K_string}
        /\ doc.x.m[K_string] = Str(prevVal.x.v.string)
        /\ val.some => val = prevVal
C7_Witness ==
    /\ Redecoded("Body")
    /\ round = 1
    /\ prevDoc.some
    /\ IsStr(prevDoc.x)
    /\ val = prevVal

Unrecognized(n) == IsStr(n) /\ n.s \notin DOMAIN TokenVersion
\* C8: a Response without http_version decodes with http_version = None; a
\* Response, or a Cassette holding one, whose http_version is an
\* unrecognized token fails to decode as a whole; an unrecognized token
\* never decodes to None.
C8_AbsentVersusUnknownVersion ==
    /\ FirstDecoded("Response") =>
          LET m == doc.x.m
          IN  /\ (/\ K_http_version \notin DOMAIN m
                  /\ K_body \in DOMAIN m /\ StringOrStruct(m[K_body]).ok
                  /\ DeserializeStatus(m[K_status]).ok) =>
                    val.x.ok /\ val.x.v.http_version = None
              /\ (K_http_version \in DOMAIN m /\ Unrecognized(m[K_http_version])) =>
                    ~val.x.ok
              /\ (val.x.ok /\ val.x.v.http_version = None) =>
                    (K_http_version \notin DOMAIN m \/ m[K_http_version] = Null)
    /\ (FirstDecoded("Cassette") /\ Has(doc.x, K_http_interactions)) =>
          LET xs == doc.x.m[K_http_interactions].xs
          IN  (\E i \in DOMAIN xs :
                  /\ K_http_version \in DOMAIN xs[i].m[K_response].m
                  /\ Unrecognized(xs[i].m[K_response].m[K_http_version])) => ~val.x.ok
C8_Witness ==
    /\ FirstDecoded("Cassette")
    /\ Has(doc.x, K_http_interactions)
    /\ Len(doc.x.m[K_http_interactions].xs) = 2
    /\ K_http_version \notin DOMAIN doc.x.m[K_http_interactions].xs[1].m[K_response].m
    /\ DeserializeHttpInteraction(doc.x.m[K_http_interactions].xs[1]).ok
    /\ K_http_version \in DOMAIN doc.x.m[K_http_interactions].xs[2].m[K_response].m
    /\ Unrecognized(doc.x.m[K_http_interactions].xs[2].m[K_response].m[K_http_version])
    /\ ~val.x.ok
C8_WitnessAbsent ==
    /\ FirstDecoded("Response")
    /\ K_http_version \notin DOMAIN doc.x.m
    /\ val.x.ok
    /\ val.x.v.http_version = None
C8_WitnessUnknown ==
    /\ FirstDecoded("Response")
    /\ K_http_version \in DOMAIN doc.x.m
    /\ doc.x.m[K_http_version] = Str(<<"9",".","9">>)
    /\ K_body \in DOMAIN doc.x.m
    /\ StringOrStruct(doc.x.m[K_body]).ok
    /\ DeserializeStatus(doc.x.m[K_status]).ok
    /\ ~val.x.ok

ExampleInstant ==
    [year |-> 2011, month |-> 11, day |-> 1, hour |-> 4, minute |-> 58, second |-> 44,
     offset |-> 0]
LastWord(s) == LET w == Split(s) IN w[Len(w)]
StatedOffset ==
    (ZoneGMT :> 0) @@ (ZoneUT :> 0) @@ (ZoneEST :> -300)
    @@ (<<"+","0","0","0","0">> :> 0) @@ (<<"-","0","0","0","0">> :> 0)
    @@ (<<"+","0","2","0","0">> :> 120) @@ (<<"-","0","5","3","0">> :> -330)
EncoderForm(s) ==
    LET w == Split(s)
    IN  /\ Len(w) = 6
        /\ Len(w[2]) = 2
        /\ Len(w[5]) = 8
        /\ IF zoneStyle = "named"
           THEN w[6] \in {ZoneGMT, <<"+","0","2","0","0">>, <<"-","0","5","3","0">>}
           ELSE w[6] \in {<<"+","0","0","0","0">>, <<"+","0","2","0","0">>,
                          <<"-","0","5","3","0">>}
C9_WitnessExample ==
    Redecoded("RecordedAt") /\ round = 1 /\ prevDoc.x = Str(ExampleText) /\ val.x = Ok(ExampleInstant)

UppercaseToken ==
    (Connect :> <<"C","O","N","N","E","C","T">>) @@ (Delete :> <<"D","E","L","E","T","E">>)
    @@ (Get :> <<"G","E","T">>) @@ (HeadVariant :> <<"H","E","A","D">>)
    @@ (Options :> <<"O","P","T","I","O","N","S">>) @@ (Patch :> <<"P","A","T","C","H">>)
    @@ (Post :> <<"P","O","S","T">>) @@ (Put :> <<"P","U","T">>)
    @@ (Trace :> <<"T","R","A","C","E">>)
\* C10: Method::as_str returns the uppercase token of a named variant and
\* the stored string of Other(s); for a named variant it differs from the
\* wire encoding, for Other(s) it equals the wire encoding.
C10_AsStrVersusWire ==
    (ty = "Method" /\ shown.some /\ val.some) =>
        LET m == val.x.v
        IN  IF IsOther(m)
            THEN shown.x = m.s /\ SerializeMethod(m) = Str(shown.x)
            ELSE shown.x = UppercaseToken[m.variant] /\ SerializeMethod(m) # Str(shown.x)
\* the part of C10 that is about as_str alone
C10_AsStrTokens ==
    (ty = "Method" /\ shown.some /\ val.some) =>
        LET m == val.x.v
        IN  IF IsOther(m) THEN shown.x = m.s
            ELSE shown.x = UppercaseToken[m.variant] /\ SerializeMethod(m) # Str(shown.x)

=============================================================================
